---------------------------- MODULE Spec2Model ----------------------------
(***************************************************************************)
(* Model of databuilder/models/watermark.py: the Watermark result model.   *)
(*                                                                         *)
(* A Watermark is constructed from one raw partition observation and then  *)
(* drained through five "create_next_*" accessors.  Four of them wrap a    *)
(* Python generator created in __init__; the fifth has an empty body.      *)
(*                                                                         *)
(* Text that the code indexes or slices (part_name and what is cut from    *)
(* it) is a sequence of one-character strings.  Text that the code only    *)
(* concatenates (database, cluster, ...) is a TLA+ string.                 *)
(***************************************************************************)
EXTENDS Integers, Sequences, FiniteSets, TLC

VARIABLES
    heap,   \* heap[w]: the attributes of Watermark object w
    ctor,   \* ctor[w]: the constructor call made for w and how it ended
    out     \* out[w][acc]: the values accessor acc has returned on w, in order

vars == <<heap, ctor, out>>

---------------------------------------------------------------------------
(* Bounds of the model. *)

\* Longest part_name the construction specification enumerates.
MaxPartLen == 5

\* Most pulls on one accessor of an instance in Spec.
MaxPulls == 3

\* Most pulls in all on an instance in SpecCtor.
MaxCtorCalls == 1

\* Most pulls in all on each instance in SpecPair.
MaxPairCalls == 2

---------------------------------------------------------------------------
(* Python values. *)

\* None, as a record so that it compares with every emitted item.
None == [kind |-> "None"]

Range(s) == {s[i] : i \in 1..Len(s)}

\* x in s, for a string s and a one-character x.
str_contains(s, x) == \E i \in 1..Len(s) : s[i] = x

RECURSIVE find_from(_, _, _)
find_from(s, x, i) ==
    IF i >= Len(s) THEN -1
    ELSE IF s[i + 1] = x THEN i
    ELSE find_from(s, x, i + 1)

\* A faulty variant of str_find: the highest index (str.rfind).
RECURSIVE rfind_from(_, _, _)
rfind_from(s, x, i) ==
    IF i < 0 THEN -1
    ELSE IF s[i + 1] = x THEN i
    ELSE rfind_from(s, x, i - 1)

str_rfind(s, x) == rfind_from(s, x, Len(s) - 1)

\* s.find(x): the lowest 0-based index of x in s, or -1.
str_find(s, x) == find_from(s, x, 0)

\* A slice bound as Python normalises it: negative counts from the end,
\* then clamped to 0..len.
slice_bound(n, i) ==
    LET j == IF i < 0 THEN i + n ELSE i
    IN  IF j < 0 THEN 0 ELSE IF j > n THEN n ELSE j

\* s[lo:hi], 0-based, hi exclusive.
slice(s, lo, hi) ==
    SubSeq(s, slice_bound(Len(s), lo) + 1, slice_bound(Len(s), hi))

\* s[:hi]
slice_to(s, hi) == slice(s, 0, hi)

\* s[lo:]
slice_from(s, lo) == slice(s, lo, Len(s))

---------------------------------------------------------------------------
(* Class constants. *)

LABEL == "Watermark"

\* A format string is a sequence of parts: literal text, or a replacement
\* field {name}.
Lit(t) == [field |-> "", text |-> t]
Fld(n) == [field |-> n, text |-> ""]

\* A faulty variant of KEY_FORMAT: the trailing '/' is missing.
KEY_FORMAT_no_slash ==
    << Fld("database"), Lit("://"), Fld("cluster"), Lit("."), Fld("schema"),
       Lit("/"), Fld("table"), Lit("/"), Fld("part_type") >>

KEY_FORMAT ==
    << Fld("database"), Lit("://"), Fld("cluster"), Lit("."), Fld("schema"),
       Lit("/"), Fld("table"), Lit("/"), Fld("part_type"), Lit("/") >>

WATERMARK_TABLE_RELATION_TYPE == "BELONG_TO_TABLE"

TABLE_WATERMARK_RELATION_TYPE == "WATERMARK"

DEFAULT_part_type == "high_watermark"

DEFAULT_cluster == "gold"

\* str.format(**kwargs): literal text is copied, a replacement field is
\* replaced by the keyword argument of its name.
RECURSIVE str_format(_, _)
str_format(fmt, kwargs) ==
    IF fmt = <<>> THEN ""
    ELSE LET p == Head(fmt)
         IN  (IF p.field = "" THEN p.text ELSE kwargs[p.field])
                 \o str_format(Tail(fmt), kwargs)

---------------------------------------------------------------------------
(* Generators.  A generator object is created by calling the generator     *)
(* function: no line of the body runs.  Each next() runs the body to the   *)
(* next yield, or to its end, which closes the generator and raises        *)
(* StopIteration; next() on a closed generator raises StopIteration again. *)
(* idx is the position of the body's list iterator over self.parts.        *)

NoGen == [state |-> "absent", idx |-> 0]

NewGen == [state |-> "created", idx |-> 0]

Yield(v, g) == [stop |-> FALSE, value |-> v, gen |-> g]

StopIteration(g) ==
    [stop |-> TRUE, value |-> None, gen |-> [g EXCEPT !.state = "closed"]]

---------------------------------------------------------------------------
(* The object. *)

Producers == {"_node_iter", "_relation_iter", "_record_iter",
              "_atlas_entity_iterator"}

\* An object no attribute of which is set: what __init__ receives as self.
\* has is the set of attributes that exist.
Blank ==
    [ has |-> {},
      create_time |-> "", database |-> "", schema |-> "", table |-> "",
      parts |-> <<>>, part_type |-> "", cluster |-> "",
      _node_iter |-> NoGen, _relation_iter |-> NoGen,
      _record_iter |-> NoGen, _atlas_entity_iterator |-> NoGen ]

\* A faulty variant of get_watermark_model_key: the key also holds create_time.
get_watermark_model_key_with_time(self) ==
    str_format(KEY_FORMAT,
               [database |-> self.database, cluster |-> self.cluster,
                schema |-> self.schema, table |-> self.table,
                part_type |-> self.part_type])
        \o self.create_time

get_watermark_model_key(self) ==
    str_format(KEY_FORMAT,
               [database |-> self.database, cluster |-> self.cluster,
                schema |-> self.schema, table |-> self.table,
                part_type |-> self.part_type])

get_metadata_model_key(self) ==
    self.database \o "://" \o self.cluster \o "." \o self.schema
        \o "/" \o self.table

---------------------------------------------------------------------------
(* Emitted items: the constructor calls of the item classes, with the      *)
(* keyword arguments the code passes.                                      *)

EmptyDict == <<>>

GraphNode(key, label, attributes) ==
    [kind |-> "GraphNode", key |-> key, label |-> label,
     attributes |-> attributes]

GraphRelationship(start_key, start_label, end_key, end_label, type, reverse_type, attributes) ==
    [kind |-> "GraphRelationship", start_key |-> start_key,
     start_label |-> start_label, end_key |-> end_key,
     end_label |-> end_label, type |-> type, reverse_type |-> reverse_type,
     attributes |-> attributes]

RDSTableWatermark(rk, partition_key, partition_value, create_time, table_rk) ==
    [kind |-> "RDSTableWatermark", rk |-> rk,
     partition_key |-> partition_key, partition_value |-> partition_value,
     create_time |-> create_time, table_rk |-> table_rk]

AtlasEntity(typeName, operation, attributes, relationships) ==
    [kind |-> "AtlasEntity", typeName |-> typeName, operation |-> operation,
     attributes |-> attributes, relationships |-> relationships]

\* The catalog collaborator's names and helpers, as the specification
\* describes them.
AtlasCommonParams_qualified_name == "qualifiedName"

AtlasTableTypes_table == "table"

AtlasTableTypes_watermark == "watermark"

AtlasSerializedEntityOperation_CREATE == "CREATE"

\* An ordered list of (fieldName, value) pairs to the attribute map; a
\* later pair of the same name wins.
get_entity_attrs(mapping) ==
    [n \in {mapping[i][1] : i \in 1..Len(mapping)} |->
        LET last == CHOOSE i \in 1..Len(mapping) :
                        /\ mapping[i][1] = n
                        /\ \A j \in (i + 1)..Len(mapping) : mapping[j][1] # n
        IN  mapping[last][2]]

\* relationship_list with one more (relationshipField, targetTypeName,
\* targetQualifiedName) triple.
add_entity_relationship(relationship_list, relation_attribute, entity_type, qualified_name) ==
    Append(relationship_list,
           <<relation_attribute, entity_type, qualified_name>>)

\* The triples in their structured form.
get_entity_relationships(relationship_list) ==
    [i \in 1..Len(relationship_list) |->
        [field |-> relationship_list[i][1],
         typeName |-> relationship_list[i][2],
         qualifiedName |-> relationship_list[i][3]]]

---------------------------------------------------------------------------
(* The generator functions.  f(self) is the call, which creates the        *)
(* generator; f_next(self, g) is next(g): the body of f run from where g   *)
(* stands, reading self as it is at that moment.                           *)

_create_node_iterator(self) == NewGen

\* A faulty variant of _create_node_iterator_next: partition_key and
\* partition_value take each other's value.
_create_node_iterator_next_swapped(self, g) ==
    IF g.state = "closed" THEN StopIteration(g)
    ELSE IF g.idx < Len(self.parts) THEN
        LET part == self.parts[g.idx + 1]
            part_node ==
                GraphNode(get_watermark_model_key(self), LABEL,
                          [partition_key |-> part[2],
                           partition_value |-> part[1],
                           create_time |-> self.create_time])
        IN  Yield(part_node, [state |-> "suspended", idx |-> g.idx + 1])
    ELSE StopIteration(g)

_create_node_iterator_next(self, g) ==
    IF g.state = "closed" THEN StopIteration(g)
    ELSE IF g.idx < Len(self.parts) THEN
        LET part == self.parts[g.idx + 1]
            part_node ==
                GraphNode(get_watermark_model_key(self), LABEL,
                          [partition_key |-> part[1],
                           partition_value |-> part[2],
                           create_time |-> self.create_time])
        IN  Yield(part_node, [state |-> "suspended", idx |-> g.idx + 1])
    ELSE StopIteration(g)

_create_relation_iterator(self) == NewGen

\* A faulty variant of _create_relation_iterator_next: type and reverse_type take
\* each other's constant.
_create_relation_iterator_next_swapped(self, g) ==
    IF g.state = "created" THEN
        LET relation ==
                GraphRelationship(get_watermark_model_key(self), LABEL,
                                  get_metadata_model_key(self), "Table",
                                  TABLE_WATERMARK_RELATION_TYPE,
                                  WATERMARK_TABLE_RELATION_TYPE,
                                  EmptyDict)
        IN  Yield(relation, [state |-> "suspended", idx |-> g.idx])
    ELSE StopIteration(g)

_create_relation_iterator_next(self, g) ==
    IF g.state = "created" THEN
        LET relation ==
                GraphRelationship(get_watermark_model_key(self), LABEL,
                                  get_metadata_model_key(self), "Table",
                                  WATERMARK_TABLE_RELATION_TYPE,
                                  TABLE_WATERMARK_RELATION_TYPE,
                                  EmptyDict)
        IN  Yield(relation, [state |-> "suspended", idx |-> g.idx])
    ELSE StopIteration(g)

_create_next_record(self) == NewGen

\* A faulty variant of _create_next_record_next: rk and table_rk take each other's
\* key.
_create_next_record_next_swapped(self, g) ==
    IF g.state = "closed" THEN StopIteration(g)
    ELSE IF g.idx < Len(self.parts) THEN
        LET part == self.parts[g.idx + 1]
            part_record ==
                RDSTableWatermark(get_metadata_model_key(self),
                                  part[1], part[2], self.create_time,
                                  get_watermark_model_key(self))
        IN  Yield(part_record, [state |-> "suspended", idx |-> g.idx + 1])
    ELSE StopIteration(g)

_create_next_record_next(self, g) ==
    IF g.state = "closed" THEN StopIteration(g)
    ELSE IF g.idx < Len(self.parts) THEN
        LET part == self.parts[g.idx + 1]
            part_record ==
                RDSTableWatermark(get_watermark_model_key(self),
                                  part[1], part[2], self.create_time,
                                  get_metadata_model_key(self))
        IN  Yield(part_record, [state |-> "suspended", idx |-> g.idx + 1])
    ELSE StopIteration(g)

_create_atlas_partition_entity(self, spec) ==
    LET attrs_mapping ==
            << <<AtlasCommonParams_qualified_name,
                 get_watermark_model_key(self)>>,
               <<"name", spec[2]>>,
               <<"displayName", spec[2]>>,
               <<"key", spec[1]>>,
               <<"create_time", self.create_time>> >>
        entity_attrs == get_entity_attrs(attrs_mapping)
        relationship_list ==
            add_entity_relationship(<<>>, "table", AtlasTableTypes_table,
                                    get_metadata_model_key(self))
    IN  AtlasEntity(AtlasTableTypes_watermark,
                    AtlasSerializedEntityOperation_CREATE,
                    entity_attrs,
                    get_entity_relationships(relationship_list))

_create_next_atlas_entity(self) == NewGen

_create_next_atlas_entity_next(self, g) ==
    IF g.state = "closed" THEN StopIteration(g)
    ELSE IF g.idx < Len(self.parts) THEN
        Yield(_create_atlas_partition_entity(self, self.parts[g.idx + 1]),
              [state |-> "suspended", idx |-> g.idx + 1])
    ELSE StopIteration(g)

---------------------------------------------------------------------------
(* The accessors: each returns [ret, self], the value returned and the     *)
(* object after the call.  try: return next(it) / except StopIteration:    *)
(* return None.                                                            *)

\* A faulty variant of create_next_node: on StopIteration the accessor makes a
\* fresh generator for the next call.
create_next_node_restarting(self) ==
    LET r == _create_node_iterator_next(self, self._node_iter)
    IN  [ret |-> IF r.stop THEN None ELSE r.value,
         self |-> [self EXCEPT !._node_iter =
                      IF r.stop THEN _create_node_iterator(self) ELSE r.gen]]

create_next_node(self) ==
    LET r == _create_node_iterator_next(self, self._node_iter)
    IN  [ret |-> IF r.stop THEN None ELSE r.value,
         self |-> [self EXCEPT !._node_iter = r.gen]]

create_next_relation(self) ==
    LET r == _create_relation_iterator_next(self, self._relation_iter)
    IN  [ret |-> IF r.stop THEN None ELSE r.value,
         self |-> [self EXCEPT !._relation_iter = r.gen]]

\* A faulty variant of create_next_record: it pulls from the node generator.
create_next_record_from_node_iter(self) ==
    LET r == _create_node_iterator_next(self, self._node_iter)
    IN  [ret |-> IF r.stop THEN None ELSE r.value,
         self |-> [self EXCEPT !._node_iter = r.gen]]

create_next_record(self) ==
    LET r == _create_next_record_next(self, self._record_iter)
    IN  [ret |-> IF r.stop THEN None ELSE r.value,
         self |-> [self EXCEPT !._record_iter = r.gen]]

create_next_atlas_entity(self) ==
    LET r == _create_next_atlas_entity_next(self, self._atlas_entity_iterator)
    IN  [ret |-> IF r.stop THEN None ELSE r.value,
         self |-> [self EXCEPT !._atlas_entity_iterator = r.gen]]

\* A faulty variant of create_next_atlas_relation: it pulls from the relationship
\* generator.
create_next_atlas_relation_from_relation_iter(self) ==
    LET r == _create_relation_iterator_next(self, self._relation_iter)
    IN  [ret |-> IF r.stop THEN None ELSE r.value,
         self |-> [self EXCEPT !._relation_iter = r.gen]]

\* The body is "pass": the call returns None and touches nothing.
create_next_atlas_relation(self) ==
    [ret |-> None, self |-> self]

---------------------------------------------------------------------------
(* Construction. *)

\* self.name = value
SetAttr(self, name, value) ==
    [[self EXCEPT ![name] = value] EXCEPT !.has = self.has \cup {name}]

\* A faulty variant of __init__: part_name is validated after the assignments.
__init__validating_last(self, create_time, database, schema, table_name, part_name, part_type, cluster) ==
    LET s1 == SetAttr(self, "create_time", create_time)
        s2 == SetAttr(s1, "database", database)
        s3 == SetAttr(s2, "schema", schema)
        s4 == SetAttr(s3, "table", table_name)
        s5 == SetAttr(s4, "parts", <<>>)
        idx == str_find(part_name, "=")
        name == slice_to(part_name, idx)
        value == slice_from(part_name, idx + 1)
        s6 == SetAttr(s5, "parts", << <<name, value>> >>)
        s7 == SetAttr(s6, "part_type", part_type)
        s8 == SetAttr(s7, "cluster", cluster)
        s9 == SetAttr(s8, "_node_iter", _create_node_iterator(s8))
        s10 == SetAttr(s9, "_relation_iter", _create_relation_iterator(s9))
        s11 == SetAttr(s10, "_record_iter", _create_next_record(s10))
        s12 == SetAttr(s11, "_atlas_entity_iterator",
                       _create_next_atlas_entity(s11))
    IN  [raised |-> ~str_contains(part_name, "="), self |-> s12]

\* __init__ on a blank object: [raised, self].  raised is TRUE when the
\* body ended at "raise Exception(...)"; self is the object as the body
\* left it.
__init__(self, create_time, database, schema, table_name, part_name, part_type, cluster) ==
    LET s1 == SetAttr(self, "create_time", create_time)
        s2 == SetAttr(s1, "database", database)
        s3 == SetAttr(s2, "schema", schema)
        s4 == SetAttr(s3, "table", table_name)
        s5 == SetAttr(s4, "parts", <<>>)
    IN  IF ~str_contains(part_name, "=") THEN [raised |-> TRUE, self |-> s5]
        ELSE
        LET idx == str_find(part_name, "=")
            name == slice_to(part_name, idx)
            value == slice_from(part_name, idx + 1)
            s6 == SetAttr(s5, "parts", << <<name, value>> >>)
            s7 == SetAttr(s6, "part_type", part_type)
            s8 == SetAttr(s7, "cluster", cluster)
            s9 == SetAttr(s8, "_node_iter", _create_node_iterator(s8))
            s10 == SetAttr(s9, "_relation_iter",
                           _create_relation_iterator(s9))
            s11 == SetAttr(s10, "_record_iter", _create_next_record(s10))
            s12 == SetAttr(s11, "_atlas_entity_iterator",
                           _create_next_atlas_entity(s11))
        IN  [raised |-> FALSE, self |-> s12]

\* The call Watermark(...): a blank object, the signature's defaults for
\* the keyword arguments the caller leaves out, then __init__.
Watermark(call) ==
    __init__(Blank, call.create_time, call.database, call.schema,
             call.table_name, call.part_name,
             IF "part_type" \in call.supplied
                 THEN call.part_type ELSE DEFAULT_part_type,
             IF "cluster" \in call.supplied
                 THEN call.cluster ELSE DEFAULT_cluster)

---------------------------------------------------------------------------
(* The state machine. *)

Instances == {"w1", "w2"}

Accessors == {"create_next_node", "create_next_relation",
              "create_next_record", "create_next_atlas_entity",
              "create_next_atlas_relation"}

\* The characters part_name is made of.
Alphabet == {"a", "="}

\* The strings over Alphabet of length at most n.
Strings(n) == UNION {[1..k -> Alphabet] : k \in 0..n}

NoCall ==
    [create_time |-> "", database |-> "", schema |-> "", table_name |-> "",
     part_name |-> <<>>, part_type |-> "", cluster |-> "", supplied |-> {}]

\* Constructor calls: supplied names the optional keyword arguments the
\* caller gives; the others take the signature's defaults.
Calls(PN, CT, DB, SC, TB, SUP) ==
    [create_time : CT, database : DB, schema : SC, table_name : TB,
     part_name : PN, part_type : {"low_watermark"}, cluster : {"silver"},
     supplied : SUP]

\* The calls of Spec: few constructions, every interleaving of pulls.
ProtoCalls ==
    Calls({<<"a", "=", "a">>, <<"=">>, <<"a", "=", "=">>, <<"a">>, <<>>},
          {"2024-01-02T00:00:00", "t2"}, {"hive"}, {"sales"}, {"orders"},
          SUBSET {"part_type", "cluster"})

\* The calls of SpecCtor: every part_name up to MaxPartLen, every field
\* varied.
CtorCalls ==
    Calls(Strings(MaxPartLen), {"2024-01-02T00:00:00", "t2"},
          {"hive", "d"}, {"sales", "s"}, {"orders", "t"},
          SUBSET {"part_type", "cluster"})

\* The calls of SpecPair: two objects that may or may not share their
\* identifying fields, and differ in create_time and part_name.
PairCalls ==
    Calls({<<"a", "=", "a">>, <<"=", "a">>}, {"2024-01-02T00:00:00", "t2"},
          {"hive"}, {"sales"}, {"orders"}, {{}, {"part_type"}})

Init ==
    /\ heap = [w \in Instances |-> Blank]
    /\ ctor = [w \in Instances |-> [state |-> "none", call |-> NoCall]]
    /\ out = [w \in Instances |-> [a \in Accessors |-> <<>>]]

\* w = Watermark(...), for a call among calls.  When __init__ raises, the
\* caller gets no reference: heap[w] keeps the object as it was at the
\* raise, and no accessor can be called on it.
Construct(w, calls) ==
    /\ ctor[w].state = "none"
    /\ \E call \in calls :
           LET r == Watermark(call)
           IN  /\ heap' = [heap EXCEPT ![w] = r.self]
               /\ ctor' = [ctor EXCEPT ![w] =
                              [state |-> IF r.raised THEN "raised"
                                         ELSE "returned",
                               call |-> call]]
    /\ UNCHANGED out

\* The caller calls accessor acc of w, whose result is r.
Pull(w, acc, r) ==
    /\ ctor[w].state = "returned"
    /\ heap' = [heap EXCEPT ![w] = r.self]
    /\ out' = [out EXCEPT ![w][acc] = Append(@, r.ret)]
    /\ UNCHANGED ctor

CreateNextNode(w) ==
    Pull(w, "create_next_node", create_next_node(heap[w]))

CreateNextRelation(w) ==
    Pull(w, "create_next_relation", create_next_relation(heap[w]))

CreateNextRecord(w) ==
    Pull(w, "create_next_record", create_next_record(heap[w]))

CreateNextAtlasEntity(w) ==
    Pull(w, "create_next_atlas_entity", create_next_atlas_entity(heap[w]))

CreateNextAtlasRelation(w) ==
    Pull(w, "create_next_atlas_relation", create_next_atlas_relation(heap[w]))

\* The number of pulls made on w.
RECURSIVE SumLen(_, _)
SumLen(f, S) ==
    IF S = {} THEN 0
    ELSE LET a == CHOOSE x \in S : TRUE
         IN  Len(f[a]) + SumLen(f, S \ {a})

Pulls(w) == SumLen(out[w], Accessors)

\* One object, every interleaving of at most MaxPulls pulls per accessor.
Next ==
    \E w \in {"w1"} :
        \/ Construct(w, ProtoCalls)
        \/ Len(out[w]["create_next_node"]) < MaxPulls /\ CreateNextNode(w)
        \/ Len(out[w]["create_next_relation"]) < MaxPulls
               /\ CreateNextRelation(w)
        \/ Len(out[w]["create_next_record"]) < MaxPulls
               /\ CreateNextRecord(w)
        \/ Len(out[w]["create_next_atlas_entity"]) < MaxPulls
               /\ CreateNextAtlasEntity(w)
        \/ Len(out[w]["create_next_atlas_relation"]) < MaxPulls
               /\ CreateNextAtlasRelation(w)

Spec == Init /\ [][Next]_vars

\* One object, every construction, a few pulls.
NextCtor ==
    \E w \in {"w1"} :
        \/ Construct(w, CtorCalls)
        \/ Pulls(w) < MaxCtorCalls /\ CreateNextNode(w)
        \/ Pulls(w) < MaxCtorCalls /\ CreateNextRelation(w)
        \/ Pulls(w) < MaxCtorCalls /\ CreateNextRecord(w)
        \/ Pulls(w) < MaxCtorCalls /\ CreateNextAtlasEntity(w)
        \/ Pulls(w) < MaxCtorCalls /\ CreateNextAtlasRelation(w)

SpecCtor == Init /\ [][NextCtor]_vars

\* Two objects, constructed and pulled in any order.
NextPair ==
    \E w \in Instances :
        \/ Construct(w, PairCalls)
        \/ Pulls(w) < MaxPairCalls /\ CreateNextNode(w)
        \/ Pulls(w) < MaxPairCalls /\ CreateNextRelation(w)
        \/ Pulls(w) < MaxPairCalls /\ CreateNextRecord(w)
        \/ Pulls(w) < MaxPairCalls /\ CreateNextAtlasEntity(w)
        \/ Pulls(w) < MaxPairCalls /\ CreateNextAtlasRelation(w)

SpecPair == Init /\ [][NextPair]_vars

---------------------------------------------------------------------------
(* What the claims speak of. *)

Live(w) == ctor[w].state = "returned"

\* The optional arguments as __init__ receives them.
EffPartType(call) ==
    IF "part_type" \in call.supplied THEN call.part_type ELSE "high_watermark"

EffCluster(call) ==
    IF "cluster" \in call.supplied THEN call.cluster ELSE "gold"

\* The items of a sequence of returned values.
ItemsOf(s) == {i \in 1..Len(s) : s[i] # None}

\* Every item comes before every None.
ItemsFirst(s) == \A i \in 1..Len(s) : i \in ItemsOf(s) <=> i <= Cardinality(ItemsOf(s))

Exhausted(s) == \E i \in 1..Len(s) : s[i] = None

---------------------------------------------------------------------------
\* C1: every item emitted by a constructed instance carries the instance's
\* identity: node key, relationship start_key, record rk and entity
\* qualifiedName equal get_watermark_model_key(); relationship end_key,
\* record table_rk and the target of the entity's 'table' relationship
\* equal get_metadata_model_key().
C1_SameIdentity ==
    \A w \in Instances : Live(w) =>
        LET wk == get_watermark_model_key(heap[w])
            mk == get_metadata_model_key(heap[w])
            rels(e) == {e.relationships[i] : i \in 1..Len(e.relationships)}
        IN  /\ \A i \in ItemsOf(out[w]["create_next_node"]) :
                   out[w]["create_next_node"][i].key = wk
            /\ \A i \in ItemsOf(out[w]["create_next_relation"]) :
                   /\ out[w]["create_next_relation"][i].start_key = wk
                   /\ out[w]["create_next_relation"][i].end_key = mk
            /\ \A i \in ItemsOf(out[w]["create_next_record"]) :
                   /\ out[w]["create_next_record"][i].rk = wk
                   /\ out[w]["create_next_record"][i].table_rk = mk
            /\ \A i \in ItemsOf(out[w]["create_next_atlas_entity"]) :
                   LET e == out[w]["create_next_atlas_entity"][i]
                   IN  /\ e.attributes["qualifiedName"] = wk
                       /\ \E r \in rels(e) : r.field = "table"
                       /\ \A r \in rels(e) :
                              r.field = "table" => r.qualifiedName = mk

\* All four item accessors have emitted their item.
C1_Witness ==
    /\ Live("w1")
    /\ \A acc \in Accessors \ {"create_next_atlas_relation"} :
           ItemsOf(out["w1"][acc]) # {}

---------------------------------------------------------------------------
\* C2: idempotent exhaustion: on every accessor, once a pull has returned
\* None every later pull returns None.
C2_IdempotentExhaustion ==
    \A w \in Instances : \A acc \in Accessors :
        \A i \in 1..Len(out[w][acc]) : \A j \in i..Len(out[w][acc]) :
            out[w][acc][i] = None => out[w][acc][j] = None

\* An accessor that emitted an item was pulled twice more after it.
C2_Witness ==
    /\ Len(out["w1"]["create_next_node"]) = 3
    /\ out["w1"]["create_next_node"][1] # None
    /\ out["w1"]["create_next_node"][2] = None
    /\ out["w1"]["create_next_node"][3] = None
    /\ Len(out["w1"]["create_next_relation"]) = 3
    /\ out["w1"]["create_next_relation"][1] # None

---------------------------------------------------------------------------
\* C3: for every part_name containing '=', construction succeeds and parts
\* is the one pair (k, v) with part_name = k + '=' + v and no '=' in k.
C3_SplitOnFirst ==
    \A w \in Instances :
        (ctor[w].state # "none" /\ str_contains(ctor[w].call.part_name, "=")) =>
            /\ Live(w)
            /\ Len(heap[w].parts) = 1
            /\ Len(heap[w].parts[1]) = 2
            /\ LET k == heap[w].parts[1][1]
                   v == heap[w].parts[1][2]
               IN  /\ k \o <<"=">> \o v = ctor[w].call.part_name
                   /\ "=" \notin Range(k)

\* "a=a=a" was split into ("a", "a=a").
C3_Witness ==
    /\ Live("w1")
    /\ ctor["w1"].call.part_name = <<"a", "=", "a", "=", "a">>
    /\ heap["w1"].parts = << << <<"a">>, <<"a", "=", "a">> >> >>

---------------------------------------------------------------------------
\* C4: for every part_name without '=', construction raises, none of the
\* four producers exists at the raise, parts holds no pair and no item is
\* ever emitted.
C4_RaisesClean ==
    \A w \in Instances :
        (ctor[w].state # "none" /\ ~str_contains(ctor[w].call.part_name, "=")) =>
            /\ ctor[w].state = "raised"
            /\ heap[w].has \cap Producers = {}
            /\ heap[w].parts = <<>>
            /\ \A acc \in Accessors : out[w][acc] = <<>>

\* Watermark(..., part_name="aa") raised.
C4_Witness ==
    /\ ctor["w1"].state = "raised"
    /\ ctor["w1"].call.part_name = <<"a", "a">>

---------------------------------------------------------------------------
\* C5: create_next_node yields the nodes of parts in order, then None: never
\* more items than parts, exactly len(parts) = 1 of them once None was
\* returned; the i-th has label 'Watermark' and exactly the attributes
\* partition_key, partition_value, create_time of parts[i] and the call.
C5_NodePerPart ==
    \A w \in Instances : Live(w) =>
        LET s == out[w]["create_next_node"]
        IN  /\ Len(heap[w].parts) = 1
            /\ ItemsFirst(s)
            /\ Cardinality(ItemsOf(s)) <= Len(heap[w].parts)
            /\ Exhausted(s) => Cardinality(ItemsOf(s)) = Len(heap[w].parts)
            /\ \A i \in ItemsOf(s) :
                   /\ s[i].kind = "GraphNode"
                   /\ s[i].label = "Watermark"
                   /\ s[i].attributes =
                          [partition_key |-> heap[w].parts[i][1],
                           partition_value |-> heap[w].parts[i][2],
                           create_time |-> ctor[w].call.create_time]

\* The node of "a==" was emitted and the accessor drained.
C5_Witness ==
    /\ Live("w1")
    /\ ctor["w1"].call.part_name = <<"a", "=", "=">>
    /\ Len(out["w1"]["create_next_node"]) = 2
    /\ out["w1"]["create_next_node"][1].kind = "GraphNode"
    /\ out["w1"]["create_next_node"][2] = None

---------------------------------------------------------------------------
\* C6: create_next_relation yields one relationship, then None: its type is
\* 'BELONG_TO_TABLE', its reverse type 'WATERMARK', its start label
\* 'Watermark', its end label 'Table', its attributes empty.
C6_OneRelation ==
    \A w \in Instances : Live(w) =>
        LET s == out[w]["create_next_relation"]
        IN  /\ ItemsFirst(s)
            /\ Cardinality(ItemsOf(s)) <= 1
            /\ Exhausted(s) => Cardinality(ItemsOf(s)) = 1
            /\ \A i \in ItemsOf(s) :
                   /\ s[i].kind = "GraphRelationship"
                   /\ s[i].type = "BELONG_TO_TABLE"
                   /\ s[i].reverse_type = "WATERMARK"
                   /\ s[i].start_label = "Watermark"
                   /\ s[i].end_label = "Table"
                   /\ DOMAIN s[i].attributes = {}

\* The relationship was emitted and the accessor drained.
C6_Witness ==
    /\ Live("w1")
    /\ Len(out["w1"]["create_next_relation"]) = 3
    /\ out["w1"]["create_next_relation"][1].kind = "GraphRelationship"
    /\ out["w1"]["create_next_relation"][2] = None

---------------------------------------------------------------------------
\* C7: the watermark key is database + '://' + cluster + '.' + schema + '/'
\* + table + '/' + part_type + '/' and the owning-table key is database +
\* '://' + cluster + '.' + schema + '/' + table, with part_type
\* 'high_watermark' and cluster 'gold' when the caller gives none; hive,
\* sales, orders give 'hive://gold.sales/orders/high_watermark/' and
\* 'hive://gold.sales/orders'.
C7_KeyFormat ==
    \A w \in Instances : Live(w) =>
        LET c == ctor[w].call
        IN  /\ get_watermark_model_key(heap[w]) =
                   c.database \o "://" \o EffCluster(c) \o "." \o c.schema
                       \o "/" \o c.table_name \o "/" \o EffPartType(c) \o "/"
            /\ get_metadata_model_key(heap[w]) =
                   c.database \o "://" \o EffCluster(c) \o "." \o c.schema
                       \o "/" \o c.table_name
            /\ (/\ c.database = "hive" /\ c.schema = "sales"
                /\ c.table_name = "orders" /\ c.supplied = {}) =>
                   /\ get_watermark_model_key(heap[w]) =
                          "hive://gold.sales/orders/high_watermark/"
                   /\ get_metadata_model_key(heap[w]) =
                          "hive://gold.sales/orders"

\* Watermark(database='hive', schema='sales', table_name='orders') with
\* neither part_type nor cluster given.
C7_Witness ==
    /\ Live("w1")
    /\ ctor["w1"].call.database = "hive"
    /\ ctor["w1"].call.schema = "sales"
    /\ ctor["w1"].call.table_name = "orders"
    /\ ctor["w1"].call.supplied = {}

---------------------------------------------------------------------------
\* C8: two instances constructed with the same (database, cluster, schema,
\* table, part_type) return the same watermark key, and with the same
\* (database, cluster, schema, table) the same owning-table key, whatever
\* their create_time, part_name and pulls.
C8_KeysDependOnIdentityOnly ==
    \A v \in Instances : \A w \in Instances :
        (Live(v) /\ Live(w)) =>
            LET a == ctor[v].call
                b == ctor[w].call
                same4 == /\ a.database = b.database
                         /\ EffCluster(a) = EffCluster(b)
                         /\ a.schema = b.schema
                         /\ a.table_name = b.table_name
            IN  /\ (same4 /\ EffPartType(a) = EffPartType(b)) =>
                       get_watermark_model_key(heap[v]) =
                           get_watermark_model_key(heap[w])
                /\ same4 =>
                       get_metadata_model_key(heap[v]) =
                           get_metadata_model_key(heap[w])

\* Two instances of one identity, of different create_time and part_name,
\* one pulled and the other not.
C8_Witness ==
    /\ Live("w1") /\ Live("w2")
    /\ EffPartType(ctor["w1"].call) = EffPartType(ctor["w2"].call)
    /\ ctor["w1"].call.create_time # ctor["w2"].call.create_time
    /\ ctor["w1"].call.part_name # ctor["w2"].call.part_name
    /\ Len(out["w1"]["create_next_node"]) = 2
    /\ Pulls("w2") = 0

---------------------------------------------------------------------------
\* C9: every call of create_next_atlas_relation returns None.
C9_NoAtlasRelation ==
    \A w \in Instances :
        \A i \in 1..Len(out[w]["create_next_atlas_relation"]) :
            out[w]["create_next_atlas_relation"][i] = None

\* create_next_atlas_relation was called three times on an instance whose
\* relationship and node producers have emitted their items.
C9_Witness ==
    /\ Live("w1")
    /\ Len(out["w1"]["create_next_atlas_relation"]) = 3
    /\ ItemsOf(out["w1"]["create_next_relation"]) # {}
    /\ ItemsOf(out["w1"]["create_next_node"]) # {}

---------------------------------------------------------------------------
\* The call of accessor acc on self.
CallAccessor(acc, self) ==
    CASE acc = "create_next_node" -> create_next_node(self)
      [] acc = "create_next_relation" -> create_next_relation(self)
      [] acc = "create_next_record" -> create_next_record(self)
      [] acc = "create_next_atlas_entity" -> create_next_atlas_entity(self)
      [] acc = "create_next_atlas_relation" -> create_next_atlas_relation(self)

\* What n calls of acc return on self when no other accessor is called.
RECURSIVE DrainAlone(_, _, _)
DrainAlone(acc, self, n) ==
    IF n = 0 THEN <<>>
    ELSE LET r == CallAccessor(acc, self)
         IN  <<r.ret>> \o DrainAlone(acc, r.self, n - 1)

\* The attribute that holds the producer of accessor acc, "" for the
\* accessor that has none.
ProducerOf(acc) ==
    CASE acc = "create_next_node" -> "_node_iter"
      [] acc = "create_next_relation" -> "_relation_iter"
      [] acc = "create_next_record" -> "_record_iter"
      [] acc = "create_next_atlas_entity" -> "_atlas_entity_iterator"
      [] acc = "create_next_atlas_relation" -> ""

\* C10: a pull on one accessor changes no attribute of the object but that
\* accessor's own producer, changes no other object and appends to no other
\* accessor's returns; and under every interleaving each accessor has
\* returned what it returns when it is drained alone on the object as
\* constructed.
C10_Independent ==
    [][\A w \in Instances : \A acc \in Accessors :
          out'[w][acc] # out[w][acc] =>
              /\ \A f \in DOMAIN heap[w] :
                     f # ProducerOf(acc) => heap'[w][f] = heap[w][f]
              /\ \A b \in Accessors \ {acc} : out'[w][b] = out[w][b]
              /\ \A v \in Instances \ {w} :
                     heap'[v] = heap[v] /\ out'[v] = out[v]
              /\ ctor' = ctor
              /\ out'[w][acc] =
                     DrainAlone(acc, Watermark(ctor[w].call).self,
                                Len(out'[w][acc]))]_vars

\* Every accessor was pulled; the node producer is closed, the record
\* producer has emitted its item and the relationship producer is still
\* suspended at its yield.
C10_Witness ==
    /\ Live("w1")
    /\ \A acc \in Accessors : Len(out["w1"][acc]) >= 1
    /\ Len(out["w1"]["create_next_node"]) = 3
    /\ Len(out["w1"]["create_next_record"]) = 2
    /\ out["w1"]["create_next_record"][1].kind = "RDSTableWatermark"
    /\ heap["w1"]._node_iter.state = "closed"
    /\ heap["w1"]._relation_iter.state = "suspended"

===========================================================================
